---- MODULE Spec2Model ----
(***************************************************************************)
(* Model of rw::camera::CameraBase<PixelType>                              *)
(* (include/CameraInterface/CameraBase.hpp): one foreground caller and the *)
(* capture loop tasks launched by startCapture through std::async.         *)
(*                                                                         *)
(* The foreground is a single thread: a call is in progress (fg.pc #       *)
(* "idle") or not.  A call that blocks or runs a driver hook takes more    *)
(* than one step, so that the capture tasks interleave with it.            *)
(*                                                                         *)
(* The second part models rw::camera::CapturedImage<PixelType>             *)
(* (include/CameraInterface/CapturedImage.hpp), a single-threaded object:  *)
(* every setData overload is one step.  Spec is the camera; ImgSpec is the *)
(* image buffer.                                                           *)
(***************************************************************************)
EXTENDS Naturals, FiniteSets, Sequences, TLC

\* ---------------------------------------------------------------- bounds
\* number of capture tasks startCapture may launch in one behaviour
MaxTasks == 3
\* number of handleGrabImage invocations made by capture tasks
MaxGrabs == 3
\* callback pairs a caller may pass to initialize
NumCallbackPairs == 2
\* length of a source (elements or bytes) handed to setData
MaxLen == 4
\* last reading of the clock
MaxClock == 3
\* number of setData calls on one image buffer
MaxCalls == 2

\* ------------------------------------------------------------- constants
\* CameraBase.hpp:167-168.  Inside the member functions the unqualified
\* names resolve to the class members, which hide the namespace-scope
\* constants of lines 174-177.  The constructor (182-185) does not
\* initialise the members, so both are default-constructed strings.
uninitialized_camera_error_message == ""
camera_running_error_message == ""
\* CameraBase.hpp:174-177, the namespace-scope constants (hidden above).
ns_uninitialized_camera_error_message ==
  "ERROR: The camera has not been properly initialized."
ns_camera_running_error_message ==
  "ERROR: The camera is currently running. Stop the camera first."
\* message a driver hook stores in error_message when it fails
DriverMessage == "driver failure"
\* contents of the caller's string before the call
CallerMessages == {"", "stale"}

TaskIds == 1..MaxTasks
GatedOps == {"setGain", "setExposure", "setRate", "grabImage"}

VARIABLES
  m_is_initialized,  \* bool m_is_initialized
  m_is_running,      \* std::atomic_bool m_is_running
  m_callback,        \* 0: empty std::function, k: callback of pair k
  m_error_callback,  \* 0: empty std::function, k: error callback of pair k
  m_future,          \* 0: no shared state, t: shared state of task t
  tasks,             \* position of every capture task in captureLoop
  launched,          \* number of tasks launched so far
  fg,                \* the foreground call in progress
  error_message,     \* the caller's string passed by reference
  ret,               \* the last completed foreground call
  bgGrabs,           \* handleGrabImage invocations made by capture tasks
  successCount,      \* invocations of m_callback
  errorCount,        \* invocations of m_error_callback
  session,           \* "none", "single" (one launch, no call since), "disturbed"
  quiet,             \* a stopCapture issued while Running returned, no startCapture since
  capturing,         \* a startCapture returned true, no stopCapture returned since
  errored,           \* the tasks that have invoked m_error_callback
  fgHooks,           \* the driver hooks the foreground call has invoked, in order
  passed,            \* the callback pair passed to the last initialize call
  firstPair,         \* the pair passed to the first initialize that succeeded (0: none yet)
  invoked,           \* the pairs whose callbacks capture tasks have invoked
  fresh,             \* the last startCapture was called in Idle after a task that
                     \* ended on a driver error, with no capture task alive
  \* ---- CapturedImage
  m_width,           \* uint32_t m_width
  m_height,          \* uint32_t m_height
  sizeofPixelType,   \* sizeof(PixelType) of the instantiation
  m_image,           \* std::vector<PixelType> m_image: its size() elements
  m_time,            \* m_time, as a clock reading (0: default-constructed)
  now,               \* high_resolution_clock::now()
  imgCalls,          \* setData calls made so far
  imgRet             \* the last setData call: overload and outcome

imgVars == <<m_width, m_height, sizeofPixelType, m_image, m_time, now,
             imgCalls, imgRet>>

cameraVars == <<m_is_initialized, m_is_running, m_callback, m_error_callback,
                m_future, tasks, launched, fg, error_message, ret, bgGrabs,
                successCount, errorCount, session, quiet, capturing, errored,
                fgHooks, passed, firstPair, invoked, fresh>>

vars == <<cameraVars, imgVars>>

engine == <<m_is_initialized, m_is_running, m_callback, m_error_callback,
            m_future, tasks, launched>>
counters == <<bgGrabs, successCount, errorCount>>
history == <<fgHooks, passed, firstPair, invoked, fresh>>

\* ------------------------------------------------------------- helpers
Idle == [pc |-> "idle", op |-> "none", at |-> "none"]

\* the state of the engine as section 4.2 of the specification names it
EngineState ==
  IF ~m_is_initialized THEN "Uninitialized"
  ELSE IF m_is_running THEN "Running" ELSE "Idle"

AliveTasks == {t \in TaskIds : tasks[t] \notin {"none", "done"}}
InCallback == {t \in TaskIds : tasks[t] \in {"cb", "errcb"}}
InGrabHook == {t \in TaskIds : tasks[t] = "grab"}
ForegroundInHook == fg.pc = "hook"

\* a capture loop has ended itself on a driver error, every capture task has
\* exited and the engine is Idle
Halted ==
  /\ m_is_initialized
  /\ ~m_is_running
  /\ errored # {}
  /\ AliveTasks = {}

\* the driver hook each gated operation delegates to (lines 205, 212, 220, 227)
HookOf(op) ==
  CASE op = "setGain" -> "handleSetGain"
    [] op = "setExposure" -> "handleSetExposure"
    [] op = "setRate" -> "handleSetRate"
    [] op = "grabImage" -> "handleGrabImage"

\* bool isInitialized(error_message): the result and the string it leaves
isInitialized(msg) ==
  IF m_is_initialized THEN [ok |-> TRUE, msg |-> msg]
  ELSE [ok |-> FALSE, msg |-> uninitialized_camera_error_message]

\* a faulty variant of isNotRunning that lets every caller through
isNotRunningAlways(msg) == [ok |-> TRUE, msg |-> msg]

\* bool isNotRunning(error_message)
isNotRunning(msg) ==
  IF ~m_is_running THEN [ok |-> TRUE, msg |-> msg]
  ELSE [ok |-> FALSE, msg |-> camera_running_error_message]

\* a foreground call made now disturbs a single capture session
Disturb == IF session = "single" THEN "disturbed" ELSE session

\* the call returns: record it (the operation, its result, the state of the
\* engine when it was called, and what the driver hook it ran reported, or
\* "none"); the foreground is idle again
Return(op, result, at, hook) ==
  /\ ret' = [op |-> op, result |-> result, at |-> at, hook |-> hook]
  /\ fg' = Idle

\* no image buffer has been constructed
NoImage ==
  /\ m_width = 0
  /\ m_height = 0
  /\ sizeofPixelType = 1
  /\ m_image = <<>>
  /\ m_time = 0
  /\ now = 0
  /\ imgCalls = 0
  /\ imgRet = [shape |-> "none", result |-> "none", match |-> FALSE]

CameraInit ==
  /\ m_is_initialized = FALSE
  /\ m_is_running = FALSE
  /\ m_callback = 0
  /\ m_error_callback = 0
  /\ m_future = 0
  /\ tasks = [t \in TaskIds |-> "none"]
  /\ launched = 0
  /\ fg = Idle
  /\ error_message = ""
  /\ ret = [op |-> "none", result |-> "none", at |-> "Uninitialized", hook |-> "none"]
  /\ bgGrabs = 0
  /\ successCount = 0
  /\ errorCount = 0
  /\ session = "none"
  /\ quiet = FALSE
  /\ capturing = FALSE
  /\ errored = {}
  /\ fgHooks = <<>>
  /\ passed = 0
  /\ firstPair = 0
  /\ invoked = {}
  /\ fresh = FALSE

Init == CameraInit /\ NoImage

\* ------------------------------------------------- foreground operations
\* a faulty variant of initialize without the check of line 192
InitializeAgain(k, msg) ==
  /\ fg.pc = "idle"
  /\ m_callback' = k
  /\ m_error_callback' = k
  /\ fg' = [pc |-> "hook", op |-> "initialize", at |-> EngineState]
  /\ error_message' = msg
  /\ session' = Disturb
  /\ UNCHANGED <<m_is_initialized, m_is_running, m_future, tasks, launched,
                 ret, counters, quiet, capturing>>
  /\ passed' = k
  /\ fgHooks' = IF fg'.pc = "hook" THEN <<"handleInitialize">> ELSE <<>>
  /\ UNCHANGED <<errored, imgVars, firstPair, invoked, fresh>>

\* initialize(callback, error_callback, error_message) up to the call of
\* handleInitialize; k names the pair of callbacks the caller passes
Initialize(k, msg) ==
  /\ fg.pc = "idle"
  /\ error_message' = msg
  /\ session' = Disturb
  /\ IF m_is_initialized
       THEN /\ Return("initialize", "true", EngineState, "none")
            /\ UNCHANGED <<m_callback, m_error_callback>>
       ELSE /\ m_callback' = k
            /\ m_error_callback' = k
            /\ fg' = [pc |-> "hook", op |-> "initialize", at |-> EngineState]
            /\ UNCHANGED ret
  /\ UNCHANGED <<m_is_initialized, m_is_running, m_future, tasks, launched,
                 counters, quiet, capturing>>
  /\ passed' = k
  /\ fgHooks' = IF fg'.pc = "hook" THEN <<"handleInitialize">> ELSE <<>>
  /\ UNCHANGED <<errored, imgVars, firstPair, invoked, fresh>>

\* a faulty variant of initialize that sets the flag whatever the hook returned
InitializeReturnAlwaysSet(ok) ==
  /\ fg.pc = "hook"
  /\ fg.op = "initialize"
  /\ m_is_initialized' = TRUE
  /\ error_message' = IF ok THEN error_message ELSE DriverMessage
  /\ Return("initialize", IF ok THEN "true" ELSE "false", fg.at,
            IF ok THEN "ok" ELSE "failed")
  /\ UNCHANGED <<m_is_running, m_callback, m_error_callback, m_future, tasks,
                 launched, counters, session, quiet, capturing>>
  /\ firstPair' = IF m_is_initialized' /\ firstPair = 0 THEN passed
                  ELSE firstPair
  /\ UNCHANGED <<errored, imgVars, fgHooks, passed, invoked, fresh>>

\* handleInitialize returns (ok: what the driver reports) and initialize
\* finishes
InitializeReturn(ok) ==
  /\ fg.pc = "hook"
  /\ fg.op = "initialize"
  /\ IF ok
       THEN /\ m_is_initialized' = TRUE
            /\ UNCHANGED error_message
            /\ Return("initialize", "true", fg.at, "ok")
       ELSE /\ error_message' = DriverMessage
            /\ UNCHANGED m_is_initialized
            /\ Return("initialize", "false", fg.at, "failed")
  /\ UNCHANGED <<m_is_running, m_callback, m_error_callback, m_future, tasks,
                 launched, counters, session, quiet, capturing>>
  /\ firstPair' = IF m_is_initialized' /\ firstPair = 0 THEN passed
                  ELSE firstPair
  /\ UNCHANGED <<errored, imgVars, fgHooks, passed, invoked, fresh>>

\* grabImage, setGain, setExposure, setRate up to the call of the hook
Gated(op, msg) ==
  /\ fg.pc = "idle"
  /\ session' = Disturb
  /\ LET i == isInitialized(msg)
         r == isNotRunning(msg)
     IN  IF ~i.ok
           THEN /\ error_message' = i.msg
                /\ Return(op, "false", EngineState, "none")
           ELSE IF ~r.ok
             THEN /\ error_message' = r.msg
                  /\ Return(op, "false", EngineState, "none")
             ELSE /\ error_message' = msg
                  /\ fg' = [pc |-> "hook", op |-> op, at |-> EngineState]
                  /\ UNCHANGED ret
  /\ UNCHANGED <<engine, counters, quiet, capturing>>
  /\ fgHooks' = IF fg'.pc = "hook" THEN <<HookOf(op)>> ELSE <<>>
  /\ UNCHANGED <<errored, imgVars, passed, firstPair, invoked, fresh>>

\* a faulty variant of the gated operations that reports success whatever
\* the hook returned
GatedReturnSwallow(ok) ==
  /\ fg.pc = "hook"
  /\ fg.op \in GatedOps
  /\ error_message' = IF ok THEN error_message ELSE DriverMessage
  /\ Return(fg.op, "true", fg.at, IF ok THEN "ok" ELSE "failed")
  /\ UNCHANGED <<engine, counters, session, quiet, capturing>>
  /\ UNCHANGED <<errored, imgVars, history>>

\* the driver hook of a gated operation returns; its result and message are
\* the operation's
GatedReturn(ok) ==
  /\ fg.pc = "hook"
  /\ fg.op \in GatedOps
  /\ error_message' = IF ok THEN error_message ELSE DriverMessage
  /\ Return(fg.op, IF ok THEN "true" ELSE "false", fg.at,
            IF ok THEN "ok" ELSE "failed")
  /\ UNCHANGED <<engine, counters, session, quiet, capturing>>
  /\ UNCHANGED <<errored, imgVars, history>>

\* a faulty variant of startCapture without the check of line 232
StartCaptureUngated(msg) ==
  /\ fg.pc = "idle"
  /\ quiet' = FALSE
  /\ error_message' = msg
  /\ IF m_is_running
       THEN /\ Return("startCapture", "true", EngineState, "none")
            /\ capturing' = TRUE
            /\ session' = Disturb
            /\ UNCHANGED m_is_running
       ELSE /\ launched < MaxTasks
            /\ m_is_running' = TRUE
            /\ fg' = [pc |-> "launch", op |-> "startCapture", at |-> EngineState]
            /\ session' = IF session = "none" THEN "single" ELSE "disturbed"
            /\ UNCHANGED <<ret, capturing>>
  /\ UNCHANGED <<m_is_initialized, m_callback, m_error_callback, m_future,
                 tasks, launched, counters>>
  /\ fgHooks' = <<>>
  /\ fresh' = Halted
  /\ UNCHANGED <<errored, imgVars, passed, firstPair, invoked>>

\* a faulty variant of startCapture without the check of line 233
StartCaptureRelaunch(msg) ==
  /\ fg.pc = "idle"
  /\ quiet' = FALSE
  /\ LET i == isInitialized(msg)
     IN  IF ~i.ok
           THEN /\ error_message' = i.msg
                /\ Return("startCapture", "false", EngineState, "none")
                /\ session' = Disturb
                /\ UNCHANGED <<m_is_running, capturing>>
           ELSE /\ launched < MaxTasks
                /\ error_message' = msg
                /\ m_is_running' = TRUE
                /\ fg' = [pc |-> "launch", op |-> "startCapture",
                          at |-> EngineState]
                /\ session' = IF session = "none" THEN "single"
                              ELSE "disturbed"
                /\ UNCHANGED <<ret, capturing>>
  /\ UNCHANGED <<m_is_initialized, m_callback, m_error_callback, m_future,
                 tasks, launched, counters>>
  /\ fgHooks' = <<>>
  /\ fresh' = Halted
  /\ UNCHANGED <<errored, imgVars, passed, firstPair, invoked>>

\* startCapture, lines 232-235: the two checks and the store to the flag
StartCapture(msg) ==
  /\ fg.pc = "idle"
  /\ quiet' = FALSE
  /\ LET i == isInitialized(msg)
     IN  IF ~i.ok
           THEN /\ error_message' = i.msg
                /\ Return("startCapture", "false", EngineState, "none")
                /\ session' = Disturb
                /\ UNCHANGED <<m_is_running, capturing>>
           ELSE IF m_is_running
             THEN /\ error_message' = msg
                  /\ Return("startCapture", "true", EngineState, "none")
                  /\ capturing' = TRUE
                  /\ session' = Disturb
                  /\ UNCHANGED m_is_running
             ELSE /\ launched < MaxTasks
                  /\ error_message' = msg
                  /\ m_is_running' = TRUE
                  /\ fg' = [pc |-> "launch", op |-> "startCapture",
                            at |-> EngineState]
                  /\ session' = IF session = "none" THEN "single"
                                ELSE "disturbed"
                  /\ UNCHANGED <<ret, capturing>>
  /\ UNCHANGED <<m_is_initialized, m_callback, m_error_callback, m_future,
                 tasks, launched, counters>>
  /\ fgHooks' = <<>>
  /\ fresh' = Halted
  /\ UNCHANGED <<errored, imgVars, passed, firstPair, invoked>>

\* startCapture, line 236, right-hand side: std::async(std::launch::async,
\* ...) starts a new thread running the capture loop
StartLaunch ==
  /\ fg.pc = "launch"
  /\ launched' = launched + 1
  /\ tasks' = [tasks EXCEPT ![launched + 1] = "check"]
  /\ fg' = [fg EXCEPT !.pc = "assign"]
  /\ UNCHANGED <<m_is_initialized, m_is_running, m_callback, m_error_callback,
                 m_future, error_message, ret, counters, session, quiet,
                 capturing>>
  /\ UNCHANGED <<errored, imgVars, history>>

\* startCapture, line 236, the move assignment to m_future: releasing the
\* shared state of an earlier std::async blocks until that task has ended.
\* The function then flows off its end without a return statement, so the
\* caller reads an indeterminate bool (r).
StartAssign(r) ==
  /\ fg.pc = "assign"
  /\ IF m_future = 0 THEN TRUE ELSE tasks[m_future] = "done"
  /\ m_future' = launched
  /\ Return("startCapture", r, fg.at, "none")
  /\ capturing' = IF r = "true" THEN TRUE ELSE capturing
  /\ UNCHANGED <<m_is_initialized, m_is_running, m_callback, m_error_callback,
                 tasks, launched, error_message, counters, session, quiet>>
  /\ UNCHANGED <<errored, imgVars, history>>

\* stopCapture, lines 241-244: the two checks and the store to the flag
StopCapture(msg) ==
  /\ fg.pc = "idle"
  /\ session' = Disturb
  /\ LET i == isInitialized(msg)
     IN  IF ~i.ok
           THEN /\ error_message' = i.msg
                /\ Return("stopCapture", "false", EngineState, "none")
                /\ capturing' = FALSE
                /\ UNCHANGED <<m_is_running, quiet>>
           ELSE IF m_is_running
             THEN /\ error_message' = msg
                  /\ Return("stopCapture", "true", EngineState, "none")
                  /\ capturing' = FALSE
                  /\ quiet' = TRUE
                  /\ UNCHANGED m_is_running
             ELSE /\ error_message' = msg
                  /\ m_is_running' = FALSE
                  /\ fg' = [pc |-> "get", op |-> "stopCapture",
                            at |-> EngineState]
                  /\ UNCHANGED <<ret, capturing, quiet>>
  /\ UNCHANGED <<m_is_initialized, m_callback, m_error_callback, m_future,
                 tasks, launched, counters>>
  /\ fgHooks' = <<>>
  /\ UNCHANGED <<errored, imgVars, passed, firstPair, invoked, fresh>>

\* stopCapture, line 245: m_future.get().  With a shared state it blocks
\* until the task has ended and releases the state; the function then flows
\* off its end (r indeterminate).  Without a shared state the call has
\* undefined behaviour: it throws std::future_error, or the call comes back
\* and the function flows off its end (a crash is the behaviour stopping
\* here).
StopGet(r) ==
  /\ fg.pc = "get"
  /\ IF m_future = 0
       THEN UNCHANGED m_future
       ELSE /\ tasks[m_future] = "done"
            /\ r # "exception"
            /\ m_future' = 0
  /\ Return("stopCapture", r, fg.at, "none")
  /\ capturing' = FALSE
  /\ UNCHANGED <<m_is_initialized, m_is_running, m_callback, m_error_callback,
                 tasks, launched, error_message, counters, session, quiet>>
  /\ UNCHANGED <<errored, imgVars, history>>

\* -------------------------------------------------------- the capture loop
\* while ( m_is_running ), line 266: enter the body and call
\* handleGrabImage, or leave the loop and end the task
LoopCheck(t) ==
  /\ tasks[t] = "check"
  /\ IF m_is_running
       THEN /\ bgGrabs < MaxGrabs
            /\ tasks' = [tasks EXCEPT ![t] = "grab"]
            /\ bgGrabs' = bgGrabs + 1
       ELSE /\ tasks' = [tasks EXCEPT ![t] = "done"]
            /\ UNCHANGED bgGrabs
  /\ UNCHANGED <<m_is_initialized, m_is_running, m_callback, m_error_callback,
                 m_future, launched, fg, error_message, ret, successCount,
                 errorCount, session, quiet, capturing>>
  /\ UNCHANGED <<errored, imgVars, history>>

\* handleGrabImage returns, lines 269-274: the error callback or the
\* success callback is invoked
LoopGrabReturn(t, ok) ==
  /\ tasks[t] = "grab"
  /\ IF ok
       THEN /\ tasks' = [tasks EXCEPT ![t] = "cb"]
            /\ successCount' = successCount + 1
            /\ invoked' = invoked \cup {m_callback}
            /\ UNCHANGED <<errorCount, errored>>
       ELSE /\ tasks' = [tasks EXCEPT ![t] = "errcb"]
            /\ errorCount' = errorCount + 1
            /\ errored' = errored \cup {t}
            /\ invoked' = invoked \cup {m_error_callback}
            /\ UNCHANGED successCount
  /\ UNCHANGED <<m_is_initialized, m_is_running, m_callback, m_error_callback,
                 m_future, launched, fg, error_message, ret, bgGrabs, session,
                 quiet, capturing>>
  /\ UNCHANGED <<imgVars, fgHooks, passed, firstPair, fresh>>

\* m_callback returns, line 274: back to the loop condition
LoopCallbackReturn(t) ==
  /\ tasks[t] = "cb"
  /\ tasks' = [tasks EXCEPT ![t] = "check"]
  /\ UNCHANGED <<m_is_initialized, m_is_running, m_callback, m_error_callback,
                 m_future, launched, fg, error_message, ret, counters, session,
                 quiet, capturing>>
  /\ UNCHANGED <<errored, imgVars, history>>

\* m_error_callback returns, line 270
LoopErrorCallbackReturn(t) ==
  /\ tasks[t] = "errcb"
  /\ tasks' = [tasks EXCEPT ![t] = "clear"]
  /\ UNCHANGED <<m_is_initialized, m_is_running, m_callback, m_error_callback,
                 m_future, launched, fg, error_message, ret, counters, session,
                 quiet, capturing>>
  /\ UNCHANGED <<errored, imgVars, history>>

\* a faulty variant of the loop that leaves the flag set after an error
LoopClearKeepsFlag(t) ==
  /\ tasks[t] = "clear"
  /\ tasks' = [tasks EXCEPT ![t] = "check"]
  /\ UNCHANGED <<m_is_initialized, m_is_running, m_callback, m_error_callback,
                 m_future, launched, fg, error_message, ret, counters, session,
                 quiet, capturing>>
  /\ UNCHANGED <<errored, imgVars, history>>

\* m_is_running = false, line 271, then back to the loop condition
LoopClear(t) ==
  /\ tasks[t] = "clear"
  /\ m_is_running' = FALSE
  /\ tasks' = [tasks EXCEPT ![t] = "check"]
  /\ UNCHANGED <<m_is_initialized, m_callback, m_error_callback, m_future,
                 launched, fg, error_message, ret, counters, session, quiet,
                 capturing>>
  /\ UNCHANGED <<errored, imgVars, history>>

\* ------------------------------------------------------------ behaviours
DoInitialize == \E k \in 1..NumCallbackPairs, msg \in CallerMessages : Initialize(k, msg)
DoInitializeReturn == \E ok \in BOOLEAN : InitializeReturn(ok)
DoGated == \E op \in GatedOps, msg \in CallerMessages : Gated(op, msg)
DoGatedReturn == \E ok \in BOOLEAN : GatedReturn(ok)
DoStartCapture == \E msg \in CallerMessages : StartCapture(msg)
DoStartAssign == \E r \in {"true", "false"} : StartAssign(r)
DoStopCapture == \E msg \in CallerMessages : StopCapture(msg)
DoStopGet == \E r \in {"true", "false", "exception"} : StopGet(r)
DoLoopCheck == \E t \in TaskIds : LoopCheck(t)
DoLoopGrabReturn == \E t \in TaskIds, ok \in BOOLEAN : LoopGrabReturn(t, ok)
DoLoopCallbackReturn == \E t \in TaskIds : LoopCallbackReturn(t)
DoLoopErrorCallbackReturn == \E t \in TaskIds : LoopErrorCallbackReturn(t)
DoLoopClear == \E t \in TaskIds : LoopClear(t)

Next ==
  \/ DoInitialize
  \/ DoInitializeReturn
  \/ DoGated
  \/ DoGatedReturn
  \/ DoStartCapture
  \/ StartLaunch
  \/ DoStartAssign
  \/ DoStopCapture
  \/ DoStopGet
  \/ DoLoopCheck
  \/ DoLoopGrabReturn
  \/ DoLoopCallbackReturn
  \/ DoLoopErrorCallbackReturn
  \/ DoLoopClear

Spec == Init /\ [][Next]_vars

\* the capture task is a thread of its own: the scheduler runs it, and the
\* error callback it calls comes back
FairSpec ==
  /\ Spec
  /\ WF_vars(DoLoopCheck)
  /\ WF_vars(DoLoopErrorCallbackReturn)
  /\ WF_vars(DoLoopClear)

TypeOK ==
  /\ m_is_initialized \in BOOLEAN
  /\ m_is_running \in BOOLEAN
  /\ m_callback \in 0..NumCallbackPairs
  /\ m_error_callback \in 0..NumCallbackPairs
  /\ m_future \in 0..MaxTasks
  /\ launched \in 0..MaxTasks
  /\ bgGrabs \in 0..MaxGrabs
  /\ passed \in 0..NumCallbackPairs
  /\ firstPair \in 0..NumCallbackPairs
  /\ invoked \subseteq 0..NumCallbackPairs
  /\ fresh \in BOOLEAN

\* ---------------------------------------------------------- CapturedImage
\* uint32_t arithmetic is done on 16-bit halves
Half == 65536
\* widths and heights the buffers are constructed with
Dims == {1, 2, 65536}
\* sizeof(PixelType) of the instantiations (uint8_t, uint16_t)
PixelSizes == {1, 2}
\* values of a byte in a source
ByteValues == {0, 1}

\* a * b in uint32_t, i.e. modulo 2^32 (m_width * m_height, lines 138-175);
\* the result is representable here when it is below 2^31
Mul32(a, b) ==
  LET al == a % Half
      ah == a \div Half
      bl == b % Half
      bh == b \div Half
      p0 == al * bl
      lo == p0 % Half
      hi == ((p0 \div Half) + ah * bl + al * bh) % Half
  IN  hi * Half + lo

\* n is the product of a and b as natural numbers (no wrap-around)
ExactProductIs(n, a, b) ==
  IF a = 0 \/ b = 0 THEN n = 0
  ELSE n % a = 0 /\ n \div a = b

\* the pixel stored in sz consecutive bytes (little-endian, as on the
\* platforms the tests run on): reinterpret_cast<const PixelType *>
PixelAt(bytes, i, sz) ==
  IF sz = 1 THEN bytes[i]
  ELSE bytes[2 * i - 1] + 256 * bytes[2 * i]

\* std::vector<PixelType>(array_pixel_type, array_pixel_type + n) over the
\* bytes of a source, lines 143-146 and 167-170
FromBytes(bytes, n, sz) == [i \in 1..n |-> PixelAt(bytes, i, sz)]

\* the bytes of a stored pixel sequence
RECURSIVE ToBytes(_, _)
ToBytes(pixels, sz) ==
  IF pixels = <<>> THEN <<>>
  ELSE (IF sz = 1 THEN <<Head(pixels)>>
        ELSE <<Head(pixels) % 256, Head(pixels) \div 256>>)
       \o ToBytes(Tail(pixels), sz)

SeqsUpTo(S, n) == UNION {[1..k -> S] : k \in 0..n}
ByteSources == SeqsUpTo(ByteValues, MaxLen)
\* pixel values of a typed source: two bytes, or two 16-bit values that
\* differ in the low and in the high byte
PixelValues(sz) == IF sz = 1 THEN ByteValues ELSE {1, 256}
TypedSources(sz) == SeqsUpTo(PixelValues(sz), MaxLen)

\* int sizeOfData() const, lines 183-186
sizeOfData == sizeofPixelType

\* the source holds exactly m_width * m_height elements (counted in
\* elements, or in bytes for the untyped sources)
TypedMatch(src) == ExactProductIs(Len(src), m_width, m_height)
BytesMatch(bytes) ==
  /\ Len(bytes) % sizeofPixelType = 0
  /\ ExactProductIs(Len(bytes) \div sizeofPixelType, m_width, m_height)

\* CapturedImage(width, height), lines 44-47: the dimensions are stored and
\* storage is reserved; reserve() leaves the vector with no elements, and
\* m_time is default-constructed
ImgInit ==
  /\ CameraInit
  /\ m_width \in Dims
  /\ m_height \in Dims
  /\ sizeofPixelType \in PixelSizes
  /\ m_image = <<>>
  /\ m_time = 0
  /\ now = 1
  /\ imgCalls = 0
  /\ imgRet = [shape |-> "none", result |-> "none", match |-> FALSE]

\* throw std::runtime_error(c_range_error_message): nothing was written;
\* the clock reads e when the call is left
Throw(shape, match, e) ==
  /\ imgRet' = [shape |-> shape, result |-> "threw", match |-> match]
  /\ now' = e
  /\ UNCHANGED <<m_image, m_time>>

\* the call stored pixels: setToCurrentTime() read the clock at t (lines
\* 126-128), the call is left at e
Stored(shape, match, pixels, t, e) ==
  /\ imgRet' = [shape |-> shape, result |-> "ok", match |-> match]
  /\ m_time' = t
  /\ now' = e
  /\ m_image' = pixels

\* what every setData call shares: the clock moves on from the start of the
\* call (now) to the reading t and to the end e
Call(t, e) ==
  /\ imgCalls < MaxCalls
  /\ imgCalls' = imgCalls + 1
  /\ t \in now..MaxClock
  /\ e \in t..MaxClock
  /\ UNCHANGED <<m_width, m_height, sizeofPixelType, cameraVars>>

\* setData(const void *array, std::size_t array_size), lines 135-147
SetDataVoid(bytes, t, e) ==
  /\ Call(t, e)
  /\ IF Len(bytes) # Mul32(Mul32(m_width, m_height), sizeOfData)
       THEN Throw("void", BytesMatch(bytes), e)
       ELSE Stored("void", BytesMatch(bytes),
                   FromBytes(bytes, Mul32(m_width, m_height), sizeOfData),
                   t, e)

\* a faulty variant of setData that stamps the time before the size check
SetDataTypedStampFirst(src, t, e) ==
  /\ Call(t, e)
  /\ IF Len(src) # Mul32(m_width, m_height)
       THEN /\ imgRet' = [shape |-> "typed", result |-> "threw",
                          match |-> TypedMatch(src)]
            /\ m_time' = t
            /\ now' = e
            /\ UNCHANGED m_image
       ELSE Stored("typed", TypedMatch(src),
                   SubSeq(src, 1, Mul32(m_width, m_height)), t, e)

\* setData(const PixelType *array, std::size_t array_size), lines 149-158;
\* array_size is the length of the array the caller passes
SetDataTyped(src, t, e) ==
  /\ Call(t, e)
  /\ IF Len(src) # Mul32(m_width, m_height)
       THEN Throw("typed", TypedMatch(src), e)
       ELSE Stored("typed", TypedMatch(src),
                   SubSeq(src, 1, Mul32(m_width, m_height)), t, e)

\* setData(const std::string &buffer), lines 160-171
SetDataString(bytes, t, e) ==
  /\ Call(t, e)
  /\ IF Len(bytes) # Mul32(Mul32(m_width, m_height), sizeOfData)
       THEN Throw("string", BytesMatch(bytes), e)
       ELSE Stored("string", BytesMatch(bytes),
                   FromBytes(bytes, Mul32(m_width, m_height), sizeOfData),
                   t, e)

\* setData(const std::vector<PixelType> &buffer), lines 173-181:
\* m_image.clear() leaves size() = 0, and std::copy to m_image.begin()
\* writes the reserved storage without adding elements, so the vector
\* getData() returns stays empty (a build that checks iterators stops here)
SetDataVector(src, t, e) ==
  /\ Call(t, e)
  /\ IF Len(src) # Mul32(m_width, m_height)
       THEN Throw("vector", TypedMatch(src), e)
       ELSE Stored("vector", TypedMatch(src), <<>>, t, e)

\* time passes between two calls
Tick ==
  /\ now < MaxClock
  /\ now' = now + 1
  /\ UNCHANGED <<m_width, m_height, sizeofPixelType, m_image, m_time,
                 imgCalls, imgRet, cameraVars>>

\* const std::vector<PixelType> & getData() const, lines 188-191
getData == m_image

\* time_point getTime() const, lines 106-108
getTime == m_time

DoSetDataVoid ==
  \E bytes \in ByteSources, t \in now..MaxClock :
    \E e \in t..MaxClock : SetDataVoid(bytes, t, e)
DoSetDataTyped ==
  \E src \in TypedSources(sizeofPixelType), t \in now..MaxClock :
    \E e \in t..MaxClock : SetDataTyped(src, t, e)
DoSetDataString ==
  \E bytes \in ByteSources, t \in now..MaxClock :
    \E e \in t..MaxClock : SetDataString(bytes, t, e)
DoSetDataVector ==
  \E src \in TypedSources(sizeofPixelType), t \in now..MaxClock :
    \E e \in t..MaxClock : SetDataVector(src, t, e)

ImgNext ==
  \/ DoSetDataVoid
  \/ DoSetDataTyped
  \/ DoSetDataString
  \/ DoSetDataVector
  \/ Tick

ImgSpec == ImgInit /\ [][ImgNext]_vars

\* ------------------------------------------------------------- properties
\* with the foreground idle, a set running flag means a capture task is alive
RunningHasTask == (fg.pc = "idle" /\ m_is_running) => AliveTasks # {}

\* C1: a stopCapture called while the engine is Running (initialized, flag
\* set, capture task alive) has, when it returns, cleared the running flag
\* and waited for the capture task: the engine is Idle, no task is alive.
C1_StopWhileRunningLeavesIdle ==
  (fg.pc = "idle" /\ ret.op = "stopCapture" /\ ret.at = "Running")
    => (~m_is_running /\ AliveTasks = {})

\* C2: once a stopCapture issued while Running has returned, no step invokes
\* the success callback or the error callback until startCapture is called.
C2_NoCallbackAfterStop ==
  [][quiet => (successCount' = successCount /\ errorCount' = errorCount)]_vars

\* C3: in every reachable state at most one capture loop task is alive.
C3_AtMostOneLoop == Cardinality(AliveTasks) <= 1

\* C4: in every reachable state the running flag implies the initialization
\* flag.
C4_RunningImpliesInitialized == m_is_running => m_is_initialized

\* a capture is running again after an earlier one ended on a driver error
C4_Witness ==
  m_is_running /\ m_is_initialized /\ launched >= 2 /\ errorCount >= 1

\* C5: a gated operation called in Uninitialized fails with the
\* not-initialized message, one called with the running flag set fails with
\* the camera-is-running message, which differs from the not-initialized
\* message; in both cases the driver hook is not invoked.
C5_GatedFailures ==
  (fg.pc = "idle" /\ ret.op \in GatedOps) =>
    /\ ret.at = "Uninitialized" =>
         /\ ret.result = "false"
         /\ ret.hook = "none"
         /\ error_message = uninitialized_camera_error_message
    /\ ret.at = "Running" =>
         /\ ret.result = "false"
         /\ ret.hook = "none"
         /\ error_message = camera_running_error_message
         /\ error_message # uninitialized_camera_error_message

\* C6 as stated: from a startCapture that returned success until a
\* stopCapture has returned, the foreground is never inside the grab hook
\* and every grabImage fails with the camera-is-running message.
C6_BusyUntilStop ==
  capturing =>
    /\ ~(fg.pc = "hook" /\ fg.op = "grabImage")
    /\ (fg.pc = "idle" /\ ret.op = "grabImage") =>
         /\ ret.result = "false"
         /\ ret.hook = "none"
         /\ error_message = camera_running_error_message

\* C6 amended: the foreground is inside the grab hook only while the running
\* flag is clear, and a grabImage called while the flag is set fails with
\* the camera-is-running message without invoking the grab hook.
C6_BusyWhileFlagSet ==
  /\ (fg.pc = "hook" /\ fg.op = "grabImage") => ~m_is_running
  /\ (fg.pc = "idle" /\ ret.op = "grabImage" /\ ret.at = "Running") =>
       /\ ret.result = "false"
       /\ ret.hook = "none"
       /\ error_message = camera_running_error_message

\* a grabImage was refused after a startCapture that returned success
C6_Witness ==
  /\ fg.pc = "idle"
  /\ ret.op = "grabImage"
  /\ ret.at = "Running"
  /\ ret.result = "false"
  /\ capturing
  /\ AliveTasks # {}

\* C7, the counts: after one startCapture from Idle and no further foreground call, if
\* the grab hook fails on its N-th invocation the success callback has been
\* invoked N-1 times before the error callback, the error callback is
\* invoked once, the task makes no further grab and leaves the loop with the
\* running flag clear.
C7_FailOnNth ==
  session = "single" =>
    /\ errorCount <= 1
    /\ errorCount = 0 => (successCount \in {bgGrabs, bgGrabs - 1}
                          /\ tasks[1] # "done")
    /\ errorCount = 1 =>
         /\ bgGrabs = successCount + 1
         /\ tasks[1] \in {"errcb", "clear", "check", "done"}
         /\ tasks[1] \in {"check", "done"} => ~m_is_running

\* C7, the exit: once the error callback was invoked in such a session the
\* task ends, unless the foreground makes another call first.
C7_LoopExits ==
  (session = "single" /\ errorCount = 1)
    ~> (tasks[1] = "done" \/ session # "single")

\* C7: the counts of C7_FailOnNth hold in every state, and the task ends.
C7_FailOnNthThenExit == []C7_FailOnNth /\ C7_LoopExits

\* the hook failed on its third invocation and the task has ended
C7_Witness ==
  /\ session = "single"
  /\ tasks[1] = "done"
  /\ bgGrabs = 3
  /\ successCount = 2
  /\ errorCount = 1
  /\ ~m_is_running

\* C8: an initialize call made when the engine is initialized returns
\* success at once, without the driver's initialize hook, and leaves the
\* callbacks and both flags as they were.
C8_InitializeIdempotent ==
  [][(m_is_initialized /\ DoInitialize) =>
       /\ fg'.pc = "idle"
       /\ ret'.op = "initialize"
       /\ ret'.result = "true"
       /\ ret'.hook = "none"
       /\ UNCHANGED <<m_callback, m_error_callback, m_is_initialized,
                      m_is_running>>]_vars

\* an initialize call returned while a capture was running
C8_Witness ==
  /\ fg.pc = "idle"
  /\ ret.op = "initialize"
  /\ ret.at = "Running"
  /\ ret.result = "true"
  /\ AliveTasks # {}

\* C9: an initialize whose driver hook fails returns failure with the hook's
\* message and leaves the engine Uninitialized; gated operations and
\* startCapture called after it fail with the not-initialized message.
C9_FailedInitialize ==
  /\ (fg.pc = "idle" /\ ret.op = "initialize" /\ ret.hook = "failed") =>
       /\ ret.at = "Uninitialized"
       /\ ret.result = "false"
       /\ error_message = DriverMessage
       /\ ~m_is_initialized
  /\ (/\ fg.pc = "idle"
      /\ ret.op \in GatedOps \cup {"startCapture"}
      /\ ~m_is_initialized) =>
       /\ ret.result = "false"
       /\ ret.hook = "none"
       /\ error_message = uninitialized_camera_error_message
       /\ ~m_is_running
       /\ launched = 0

\* a gated operation was refused after an initialize that failed
C9_Witness ==
  /\ fg.pc = "idle"
  /\ ret.op = "grabImage"
  /\ ret.result = "false"
  /\ ~m_is_initialized
  /\ m_callback # 0

\* C10: no reachable state has two execution contexts inside a driver hook.
C10_OneContextInHook ==
  Cardinality(InGrabHook) + (IF ForegroundInHook THEN 1 ELSE 0) <= 1

\* C11: no two callback invocations of the engine are in progress at the
\* same time, and a frame's delivery is over before the next grab begins.
C11_CallbacksOneAtATime ==
  /\ Cardinality(InCallback) <= 1
  /\ InCallback # {} => InGrabHook = {}

\* C12: startCapture called while Running returns success and launches
\* nothing; called in Idle it sets the running flag and launches exactly one
\* capture task; called in Uninitialized it fails with the not-initialized
\* message, leaves the flag clear and launches nothing.
C12_StartCapture ==
  [][/\ (DoStartCapture /\ EngineState = "Running") =>
          /\ fg'.pc = "idle"
          /\ ret'.op = "startCapture"
          /\ ret'.result = "true"
          /\ UNCHANGED <<m_is_initialized, m_is_running, tasks, launched,
                         m_future>>
     /\ (DoStartCapture /\ EngineState = "Uninitialized") =>
          /\ fg'.pc = "idle"
          /\ ret'.op = "startCapture"
          /\ ret'.result = "false"
          /\ error_message' = uninitialized_camera_error_message
          /\ ~m_is_running'
          /\ UNCHANGED <<m_is_initialized, tasks, launched, m_future>>
     /\ (DoStartCapture /\ EngineState = "Idle") =>
          /\ m_is_running'
          /\ fg'.pc = "launch"
          /\ UNCHANGED <<tasks, launched>>
     /\ (fg.pc = "launch" /\ fg' # fg) =>
          /\ fg'.pc = "assign"
          /\ launched' = launched + 1
          /\ AliveTasks' = AliveTasks \cup {launched'}
     /\ (fg.pc = "assign" /\ fg' # fg) =>
          /\ fg'.pc = "idle"
          /\ ret'.op = "startCapture"
     /\ launched' # launched => fg.pc = "launch"]_vars

\* a startCapture made while the only capture task runs returned success
C12_Witness ==
  /\ fg.pc = "idle"
  /\ ret.op = "startCapture"
  /\ ret.at = "Running"
  /\ ret.result = "true"
  /\ launched = 1
  /\ AliveTasks = {1}

\* C13: a stopCapture called when the engine is not Running returns success
\* and never reaches the wait on the task handle.
C13_StopWhenNotRunningNoOp ==
  /\ fg.pc # "get"
  /\ (/\ fg.pc = "idle"
      /\ ret.op = "stopCapture"
      /\ ret.at \in {"Uninitialized", "Idle"}) => ret.result = "true"

\* C14: every operation completes with an explicit success or failure; the
\* launching path of startCapture and the joining path of stopCapture return
\* a defined success value.
C14_ExplicitOutcome ==
  (fg.pc = "idle" /\ ret.op # "none") =>
    /\ ret.result \in {"true", "false"}
    /\ (ret.op = "startCapture" /\ ret.at = "Idle") => ret.result = "true"
    /\ (ret.op = "stopCapture" /\ ret.at # "Uninitialized")
         => ret.result = "true"

\* C19: a stopCapture called while Running does not return while a grab
\* hook call of a capture task is in flight.
C19_StopWaitsForGrab ==
  [][(/\ \/ DoStopCapture /\ EngineState = "Running"
         \/ fg.pc = "get" /\ fg.at = "Running"
      /\ fg'.pc = "idle") => InGrabHook = {}]_vars

\* C20: a task that has invoked the error callback calls neither the grab
\* hook nor a callback again.
C20_ErroredTaskHalts ==
  \A t \in errored : tasks[t] \in {"errcb", "clear", "check", "done"}

\* C15: a setData call whose source does not hold exactly width*height
\* elements fails with the size-mismatch error and leaves the stored pixels
\* and the capture time as they were.
C15_MismatchRejected ==
  [][(imgCalls' # imgCalls /\ ~imgRet'.match) =>
       /\ imgRet'.result = "threw"
       /\ UNCHANGED <<m_image, m_time>>]_vars

\* C16: in every state of an image buffer getData() has exactly
\* width*height elements.
C16_DataLength == ExactProductIs(Len(getData), m_width, m_height)

\* C17: after a setData call whose source holds exactly width*height
\* elements, getData() equals the source, for each of the four overloads.
C17_DataEqualsSource ==
  [][/\ \A src \in TypedSources(sizeofPixelType), t, e \in 0..MaxClock :
          (/\ SetDataTyped(src, t, e) \/ SetDataVector(src, t, e)
           /\ TypedMatch(src)) => getData' = src
     /\ \A bytes \in ByteSources, t, e \in 0..MaxClock :
          (/\ SetDataVoid(bytes, t, e) \/ SetDataString(bytes, t, e)
           /\ BytesMatch(bytes)) => ToBytes(getData', sizeofPixelType) = bytes
    ]_vars

\* C18: getTime() changes only in a setData call that stores, to a clock
\* reading taken between the start and the end of that call; it never
\* decreases, and a call that throws leaves it alone.
C18_TimeOfLastSuccess ==
  [][/\ getTime' >= getTime
     /\ (imgCalls' # imgCalls /\ imgRet'.result = "ok") =>
          (now <= getTime' /\ getTime' <= now')
     /\ (imgCalls' = imgCalls \/ imgRet'.result = "threw") =>
          getTime' = getTime]_vars

\* a call threw after an earlier call had stored and stamped the time
C18_Witness ==
  /\ imgRet.result = "threw"
  /\ imgCalls >= 2
  /\ getTime > 0
  /\ Len(getData) > 0

\* C21: a startCapture called after a capture loop ended itself on a driver
\* error and every task has exited returns success and launches a new
\* capture task; while an errored task has exited and the running flag is
\* clear (no startCapture since), no capture task calls the grab hook.
C21_FreshStartAfterError ==
  [][/\ (DoStartCapture /\ Halted) =>
          /\ m_is_running'
          /\ fg'.pc = "launch"
     /\ (fg.pc = "launch" /\ fg' # fg /\ fresh) =>
          /\ launched' = launched + 1
          /\ AliveTasks' = {launched'}
     /\ (fg.pc = "assign" /\ fg'.pc = "idle" /\ fresh) =>
          /\ ret'.op = "startCapture"
          /\ ret'.result = "true"
     /\ ((\E t \in errored : tasks[t] = "done") /\ ~m_is_running) =>
          bgGrabs' = bgGrabs]_vars

\* C22: the callbacks a capture task invokes are those of the pair passed to
\* the first initialize call that succeeded; once initialized the handles
\* hold that pair, and no step writes a handle while the engine is
\* initialized or a capture task is alive.
C22_CallbacksWriteOnce ==
  [][/\ invoked' # {} => (firstPair' # 0 /\ invoked' = {firstPair'})
     /\ m_is_initialized' =>
          (m_callback' = firstPair' /\ m_error_callback' = firstPair')
     /\ firstPair # 0 => firstPair' = firstPair
     /\ (m_callback' # m_callback \/ m_error_callback' # m_error_callback) =>
          (~m_is_initialized /\ AliveTasks = {})]_vars

\* a capture task delivers with the registered pair after an initialize
\* call that passed another pair
C22_Witness ==
  /\ firstPair # 0
  /\ passed # firstPair
  /\ invoked = {firstPair}
  /\ AliveTasks # {}
  /\ fg.pc = "idle"
  /\ ret.op = "initialize"

\* C23: a gated operation called in Idle invokes its driver hook once, and
\* only that hook; it returns what the hook returned and leaves the message
\* as the hook left it; from the call to the return both flags and both
\* callback handles keep their values.
C23_IdleGatedDelegates ==
  [][/\ (DoGated /\ EngineState = "Idle") =>
          /\ fg'.pc = "hook"
          /\ fg'.op \in GatedOps
          /\ fg'.at = "Idle"
          /\ fgHooks' = <<HookOf(fg'.op)>>
          /\ UNCHANGED <<m_is_initialized, m_is_running, m_callback,
                         m_error_callback>>
     /\ (fg.pc = "hook" /\ fg.op \in GatedOps /\ fg.at = "Idle") =>
          /\ m_is_initialized' /\ ~m_is_running'
          /\ UNCHANGED <<m_callback, m_error_callback, fgHooks>>
          /\ fgHooks = <<HookOf(fg.op)>>
          /\ fg' # fg =>
               /\ fg'.pc = "idle"
               /\ ret'.op = fg.op
               /\ ret'.hook \in {"ok", "failed"}
               /\ ret'.hook = "ok" =>
                    (ret'.result = "true" /\ error_message' = error_message)
               /\ ret'.hook = "failed" =>
                    (ret'.result = "false" /\ error_message' = DriverMessage)
    ]_vars

\* setGain returned the failure of its hook in Idle while a capture task
\* that ended on an error was still alive
C23_Witness ==
  /\ fg.pc = "idle"
  /\ ret.op = "setGain"
  /\ ret.at = "Idle"
  /\ ret.hook = "failed"
  /\ ret.result = "false"
  /\ error_message = DriverMessage
  /\ fgHooks = <<"handleSetGain">>
  /\ AliveTasks # {}
  /\ m_is_initialized
  /\ ~m_is_running

\* C24: a source that setData accepts holds exactly m_width * m_height
\* elements, the product taken over the natural numbers.
C24_AcceptsExactProduct == imgRet.result = "ok" => imgRet.match

====
